---- MODULE Spec2Model ----
(***************************************************************************)
(* A model of src/main.rs: the click counter built four ways.              *)
(*                                                                         *)
(* main() runs version_1_with_single_button.  The other three version      *)
(* functions are modelled as alternative entry points, each under its own  *)
(* specification.  Everything runs on the single browser thread: a click   *)
(* handler runs to completion, and the task given to spawn_local is polled  *)
(* between handlers, never during one.                                     *)
(*                                                                         *)
(* The channel is futures::channel::mpsc::channel(4) (futures 0.3): a      *)
(* sender that pushes a message making num_messages exceed the buffer is   *)
(* parked (the message is still queued) and its next try_send fails as     *)
(* full until the receiver, on popping a message, unparks it.              *)
(***************************************************************************)
EXTENDS Integers, Sequences, FiniteSets, TLC

VARIABLES
    pc,             \* position of the entry function: "start" | "returned"
    label,          \* text content of each button ("" before it is created)
    listeners,      \* the click listener registered on each button
    p,              \* text content of the <p> element ("" before it is created)
    state,          \* State.count: captured by the "+1" closure (version 1),
                    \* inside the shared Rc<RefCell<State>> (version 3)
    closure_state,  \* version 2: the State.count each listener closure holds
    borrow_flag,    \* version 3: the RefCell's borrow state: 0 unborrowed,
                    \* -1 mutably borrowed, n > 0 shared borrows
    handler,        \* version 3: the listener being run and its position
    panicked,       \* version 3: a borrow failed (BorrowError/BorrowMutError)
    channel,        \* "none" | "open": the mpsc channel of version 4
    message_queue,  \* the channel's buffered messages, head first
    parked_queue,   \* the channel's queue of parked sender tasks, head first
    is_parked,      \* SenderTask.is_parked of each sender
    maybe_parked,   \* BoundedSenderInner.maybe_parked of each sender
    reducer,        \* the spawned task: "none" | "woken" | "running" |
                    \* "pending" (suspended at next().await) | "exited"
    count,          \* the reducer task's local count
    clicks,         \* history: the buttons clicked, in order
    failed,         \* history: the number of try_send calls that returned Err
    sent,           \* history: the messages try_send accepted, in order
    delivered,      \* history: the messages the reducer dequeued, in order
    renders         \* history: the texts the reducer wrote to <p>, in order

chan_vars == <<channel, message_queue, parked_queue, is_parked, maybe_parked>>
hist_vars == <<clicks, failed, sent, delivered, renders>>
dom_vars == <<label, listeners, p>>
v23_vars == <<closure_state, borrow_flag, handler, panicked>>
vars == <<pc, label, listeners, p, state, closure_state, borrow_flag, handler,
          panicked, channel, message_queue, parked_queue,
          is_parked, maybe_parked, reducer, count, clicks, failed, sent,
          delivered, renders>>

\* The number of clicks a behaviour explores.
MaxClicks == 8

\* The two button elements.
Buttons == {"increment", "decrement"}

\* The two senders of version 4's channel: the original and its clone.
Senders == {"message_sender", "message_sender_clone"}

\* enum Msg
Msg == {"Increment", "Decrement"}

\* The argument of futures::channel::mpsc::channel(4).
buffer == 4

----------------------------------------------------------------------------
(* Formatting: i32's Display, as used by to_string() and format!.          *)

Digits == <<"0", "1", "2", "3", "4", "5", "6", "7", "8", "9">>

RECURSIVE fmt_u(_)
fmt_u(n) == IF n < 10 THEN Digits[n + 1]
            ELSE fmt_u(n \div 10) \o Digits[(n % 10) + 1]

to_string(n) == IF n < 0 THEN "-" \o fmt_u(-n) ELSE fmt_u(n)

\* Mutant: the text of the older reducer, "Value from stream is {}".
format_count_stream(n) == "Value from stream is " \o to_string(n)

\* format!("count is {count}")
format_count(n) == "count is " \o to_string(n)

----------------------------------------------------------------------------
(* History helpers.                                                        *)

\* +1 per Increment, -1 per Decrement.
Delta(m) == IF m = "Increment" THEN 1 ELSE -1

RECURSIVE Sum(_)
Sum(s) == IF s = <<>> THEN 0 ELSE Delta(s[1]) + Sum(Tail(s))

RECURSIVE Occurrences(_, _)
Occurrences(s, x) ==
    IF s = <<>> THEN 0
    ELSE (IF s[1] = x THEN 1 ELSE 0) + Occurrences(Tail(s), x)

\* The number of clicks made on the button whose text is t, e.g. "+1".
RECURSIVE ClicksLabelled(_, _)
ClicksLabelled(s, t) ==
    IF s = <<>> THEN 0
    ELSE (IF label[s[1]] = t THEN 1 ELSE 0) + ClicksLabelled(Tail(s), t)

ClicksOn(t) == ClicksLabelled(clicks, t)

\* The decimal text of k, written out independently of to_string, for
\* -100 < k < 100.
DigitText(d) ==
    CASE d = 0 -> "0" [] d = 1 -> "1" [] d = 2 -> "2" [] d = 3 -> "3"
      [] d = 4 -> "4" [] d = 5 -> "5" [] d = 6 -> "6" [] d = 7 -> "7"
      [] d = 8 -> "8" [] d = 9 -> "9"

Abs(k) == IF k < 0 THEN -k ELSE k

DecimalText(k) ==
    (IF k < 0 THEN "-" ELSE "")
    \o (IF Abs(k) >= 10 THEN DigitText(Abs(k) \div 10) ELSE "")
    \o DigitText(Abs(k) % 10)

\* The text the spec expects on the display for a count of k.
CountText(k) == "count is " \o DecimalText(k)

----------------------------------------------------------------------------
(* The state before the entry function runs: no element, no listener.      *)

Init ==
    /\ pc = "start"
    /\ label = [b \in Buttons |-> ""]
    /\ listeners = [b \in Buttons |-> "none"]
    /\ p = ""
    /\ state = 0
    /\ closure_state = [b \in Buttons |-> 0]
    /\ borrow_flag = 0
    /\ handler = [button |-> "none", at |-> "idle"]
    /\ panicked = FALSE
    /\ channel = "none"
    /\ message_queue = <<>>
    /\ parked_queue = <<>>
    /\ is_parked = [s \in Senders |-> FALSE]
    /\ maybe_parked = [s \in Senders |-> FALSE]
    /\ reducer = "none"
    /\ count = 0
    /\ clicks = <<>>
    /\ failed = 0
    /\ sent = <<>>
    /\ delivered = <<>>
    /\ renders = <<>>

----------------------------------------------------------------------------
(* Version 4: the channel and the reducer task.                            *)

\* version_4_with_async_channel_and_reducer_pattern(): creates the elements,
\* the channel, spawns the reducer task (first polled after this function
\* returns) and registers both listeners.
version_4_with_async_channel_and_reducer_pattern ==
    /\ pc = "start"
    /\ pc' = "returned"
    /\ p' = "Hello, Ryan!"
    /\ label' = [increment |-> "+1", decrement |-> "-1"]
    /\ channel' = "open"
    /\ message_queue' = <<>>
    /\ parked_queue' = <<>>
    /\ is_parked' = [s \in Senders |-> FALSE]
    /\ maybe_parked' = [s \in Senders |-> FALSE]
    /\ reducer' = "woken"
    /\ count' = 0
    /\ listeners' = [increment |-> "v4_increment",
                     decrement |-> "v4_decrement"]
    /\ UNCHANGED <<state, v23_vars, hist_vars>>

\* State.num_messages of the channel.
num_messages == Len(message_queue)

\* BoundedSenderInner::poll_unparked(None) is Ready.
poll_unparked(s) == ~maybe_parked[s] \/ ~is_parked[s]

\* Mutant: the sender is parked two messages late.
park_self_late(n) == n > buffer + 2

\* do_send_b's test: park the sender once the messages exceed the buffer.
park_self(n) == n > buffer

\* Mutant: the wake-up of the receiver task is lost.
wake_lost(r) == r

\* queue_push_and_signal's recv_task.wake(): a suspended receiver task is
\* scheduled to be polled again.
wake(r) == IF r = "pending" THEN "woken" ELSE r

\* BoundedSenderInner::do_send_b: count the message, park the sender if the
\* buffer is exceeded, push the message and wake the receiver task.
do_send_b(s, msg) ==
    LET park == park_self(num_messages + 1) IN
    /\ is_parked' = [is_parked EXCEPT ![s] = park]
    /\ maybe_parked' = [maybe_parked EXCEPT ![s] = park]
    /\ parked_queue' = IF park THEN Append(parked_queue, s) ELSE parked_queue
    /\ message_queue' = Append(message_queue, msg)
    /\ reducer' = wake(reducer)
    /\ sent' = Append(sent, msg)
    /\ UNCHANGED <<channel, failed>>

\* Mutant: a full channel overwrites its oldest message.
try_send_drop_oldest(s, msg) ==
    IF poll_unparked(s)
    THEN do_send_b(s, msg)
    ELSE /\ failed' = failed + 1
         /\ message_queue' = Append(Tail(message_queue), msg)
         /\ UNCHANGED <<channel, parked_queue, is_parked, maybe_parked,
                        reducer, sent>>

\* Sender::try_send: Err(Full) while the sender is parked, else do_send_b.
try_send(s, msg) ==
    IF poll_unparked(s)
    THEN do_send_b(s, msg)
    ELSE /\ failed' = failed + 1
         /\ UNCHANGED <<chan_vars, reducer, sent>>

\* The sender each listener closure owns: the closure on `increment` owns
\* the clone, the closure on `decrement` the original.
handler_sender(h) ==
    IF h = "v4_increment" THEN "message_sender_clone" ELSE "message_sender"

\* Mutant: both closures send Increment.
handler_msg_copy_paste(h) == "Increment"

\* The message each listener closure sends.
handler_msg(h) == IF h = "v4_increment" THEN "Increment" ELSE "Decrement"

\* Mutant: the listener also writes the display itself, as in version 1.
ClickV4_writes_display(b) ==
    /\ pc = "returned"
    /\ listeners[b] \in {"v4_increment", "v4_decrement"}
    /\ reducer # "running"
    /\ Len(clicks) < MaxClicks
    /\ clicks' = Append(clicks, b)
    /\ try_send(handler_sender(listeners[b]), handler_msg(listeners[b]))
    /\ p' = "clicked"
    /\ UNCHANGED <<pc, label, listeners, state, v23_vars, count, delivered,
                   renders>>

\* A click on button b in version 4: its listener makes one try_send, the
\* result unused.  No handler runs while the reducer task is being polled.
ClickV4(b) ==
    /\ pc = "returned"
    /\ listeners[b] \in {"v4_increment", "v4_decrement"}
    /\ reducer # "running"
    /\ Len(clicks) < MaxClicks
    /\ clicks' = Append(clicks, b)
    /\ try_send(handler_sender(listeners[b]), handler_msg(listeners[b]))
    /\ UNCHANGED <<pc, dom_vars, state, v23_vars, count, delivered,
                   renders>>

\* A click on the `increment` element.
ClickIncrementV4 == ClickV4("increment")

\* A click on the `decrement` element.
ClickDecrementV4 == ClickV4("decrement")

\* Mutant: the task renders the count before it awaits the first message.
ReducerPoll_renders_first ==
    /\ reducer = "woken"
    /\ reducer' = "running"
    /\ p' = format_count(count)
    /\ renders' = Append(renders, p')
    /\ UNCHANGED <<pc, label, listeners, state, v23_vars, chan_vars, count,
                   clicks, failed, sent, delivered>>

\* The executor polls the woken task.
ReducerPoll ==
    /\ reducer = "woken"
    /\ reducer' = "running"
    /\ UNCHANGED <<pc, dom_vars, state, v23_vars, chan_vars, count, hist_vars>>

\* Mutant: the parked sender is taken off the queue but never unparked.
unpark_one_forgets ==
    /\ parked_queue' = IF parked_queue = <<>> THEN <<>> ELSE Tail(parked_queue)
    /\ is_parked' = is_parked

\* Receiver::next_message's unpark_one: unpark the longest-parked sender.
unpark_one ==
    /\ parked_queue' = IF parked_queue = <<>> THEN <<>> ELSE Tail(parked_queue)
    /\ is_parked' = IF parked_queue = <<>> THEN is_parked
                    ELSE [is_parked EXCEPT ![Head(parked_queue)] = FALSE]

\* Mutant: the receiver takes the newest message.
next_message_newest == message_queue[Len(message_queue)]

\* The message message_receiver.next() yields: the head of the queue.
next_message == Head(message_queue)

\* Mutant: the message is read but left in the queue.
pop_message_keeps == message_queue

\* The rest of the queue after next_message is popped.
pop_message == Tail(message_queue)

\* Mutant: Decrement subtracts two.
update_decrement_by_two(c, msg) == IF msg = "Increment" THEN c + 1 ELSE c - 2

\* Mutant: Decrement adds too.
update_always_adds(c, msg) == c + 1

\* match msg { Increment => count += 1, Decrement => count -= 1 }
update(c, msg) == IF msg = "Increment" THEN c + 1 ELSE c - 1

\* One iteration of the while-let loop: dequeue a message, update count,
\* write "count is {count}" to <p>.
ReducerNext ==
    /\ reducer = "running"
    /\ message_queue # <<>>
    /\ LET msg == next_message IN
       /\ message_queue' = pop_message
       /\ unpark_one
       /\ count' = update(count, msg)
       /\ p' = format_count(count')
       /\ delivered' = Append(delivered, msg)
       /\ renders' = Append(renders, p')
    /\ UNCHANGED <<pc, label, listeners, state, v23_vars, channel, maybe_parked,
                   reducer,
                   clicks, failed, sent>>

\* The senders alive: those owned by the closures registered as listeners
\* (the original moved into the `decrement` closure, the clone into the
\* `increment` closure); nothing unregisters or drops them.
num_senders ==
    Cardinality({handler_sender(listeners[b]) :
                    b \in {x \in Buttons :
                              listeners[x] \in {"v4_increment", "v4_decrement"}}})

\* Mutant: an empty queue is taken for the end of the stream.
next_is_none_when_empty == TRUE

\* message_receiver.next() on an empty queue yields None (and the while-let
\* loop ends) only when no sender is left.
next_is_none == num_senders = 0

\* next().await finds the queue empty: the task suspends while senders
\* exist, and leaves the loop when none does.
ReducerSuspend ==
    /\ reducer = "running"
    /\ message_queue = <<>>
    /\ reducer' = IF next_is_none THEN "exited" ELSE "pending"
    /\ UNCHANGED <<pc, dom_vars, state, v23_vars, chan_vars, count, hist_vars>>

NextV4 ==
    \/ version_4_with_async_channel_and_reducer_pattern
    \/ ClickIncrementV4
    \/ ClickDecrementV4
    \/ ReducerPoll
    \/ ReducerNext
    \/ ReducerSuspend

SpecV4 == Init /\ [][NextV4]_vars

\* The executor polls a woken task, and a running poll goes on.
FairSpecV4 ==
    /\ SpecV4
    /\ WF_vars(ReducerPoll)
    /\ WF_vars(ReducerNext)
    /\ WF_vars(ReducerSuspend)

----------------------------------------------------------------------------
(* Version 1, the version main() runs: one listener, on the "+1" button.   *)

version_1_with_single_button ==
    /\ pc = "start"
    /\ pc' = "returned"
    /\ state' = 0
    /\ p' = "Click the button to update this"
    /\ label' = [increment |-> "+1", decrement |-> "-1"]
    /\ listeners' = [increment |-> "v1_increment", decrement |-> "none"]
    /\ UNCHANGED <<v23_vars, chan_vars, reducer, count, hist_vars>>

\* Mutant: main runs version 4.
main_runs_version_4 == version_4_with_async_channel_and_reducer_pattern

\* fn main(): installs the panic hook and runs version 1.
main == version_1_with_single_button

\* The listener of version 1: state.count += 1, then write it to <p>.
ClickIncrementV1 ==
    /\ pc = "returned"
    /\ listeners["increment"] = "v1_increment"
    /\ Len(clicks) < MaxClicks
    /\ clicks' = Append(clicks, "increment")
    /\ state' = state + 1
    /\ p' = to_string(state')
    /\ UNCHANGED <<pc, label, listeners, v23_vars, chan_vars, reducer, count,
                   failed,
                   sent, delivered, renders>>

\* Mutant: the commented-out "-1" listener is live.
ClickUnlistened_decrements ==
    /\ pc = "returned"
    /\ Len(clicks) < MaxClicks
    /\ \E b \in Buttons :
          /\ listeners[b] = "none"
          /\ clicks' = Append(clicks, b)
    /\ state' = state - 1
    /\ p' = to_string(state')
    /\ UNCHANGED <<pc, label, listeners, v23_vars, chan_vars, reducer, count,
                   failed, sent, delivered, renders>>

\* A click on a button that has no listener: nothing runs.
ClickUnlistened ==
    /\ pc = "returned"
    /\ Len(clicks) < MaxClicks
    /\ \E b \in Buttons :
          /\ listeners[b] = "none"
          /\ clicks' = Append(clicks, b)
    /\ UNCHANGED <<pc, dom_vars, state, v23_vars, chan_vars, reducer, count,
                   failed, sent, delivered, renders>>

NextMain ==
    \/ main
    \/ ClickIncrementV1
    \/ ClickUnlistened

SpecMain == Init /\ [][NextMain]_vars

----------------------------------------------------------------------------
(* Version 2: each move closure captures its own copy of state.count.      *)

version_2_with_stale_closure ==
    /\ pc = "start"
    /\ pc' = "returned"
    /\ closure_state' = [b \in Buttons |-> 0]
    /\ p' = "Click the button to update this"
    /\ label' = [increment |-> "+1", decrement |-> "-1"]
    /\ listeners' = [increment |-> "v2_increment", decrement |-> "v2_decrement"]
    /\ UNCHANGED <<state, borrow_flag, handler, panicked, chan_vars, reducer,
                   count, hist_vars>>

\* Mutant: both closures work on one State.
captured_shared(b) == "increment"

\* The State.count the closure registered on button b works on: its own,
\* copied when the move closure was built.
captured(b) == b

\* Mutant: the "-1" closure adds too.
handler_step_copy_paste(h) == 1

\* state.count += 1 in the "+1" closure, state.count -= 1 in the "-1" one.
handler_step(h) == IF h \in {"v2_increment", "v3_increment"} THEN 1 ELSE -1

\* A listener of version 2: update the captured count, write it to <p>.
ClickV2(b) ==
    /\ pc = "returned"
    /\ listeners[b] \in {"v2_increment", "v2_decrement"}
    /\ Len(clicks) < MaxClicks
    /\ clicks' = Append(clicks, b)
    /\ closure_state' =
          [closure_state EXCEPT
              ![captured(b)] = closure_state[captured(b)]
                                  + handler_step(listeners[b])]
    /\ p' = to_string(closure_state'[captured(b)])
    /\ UNCHANGED <<pc, label, listeners, state, borrow_flag, handler, panicked,
                   chan_vars, reducer, count, failed, sent, delivered, renders>>

ClickIncrementV2 == ClickV2("increment")

ClickDecrementV2 == ClickV2("decrement")

NextV2 ==
    \/ version_2_with_stale_closure
    \/ ClickIncrementV2
    \/ ClickDecrementV2

SpecV2 == Init /\ [][NextV2]_vars

----------------------------------------------------------------------------
(* Version 3: one State in an Rc<RefCell<..>>, shared by both closures.    *)
(* A listener is followed statement by statement to show its borrows.      *)

version_3_with_interior_mutability ==
    /\ pc = "start"
    /\ pc' = "returned"
    /\ state' = 0
    /\ borrow_flag' = 0
    /\ p' = "Click the button to update this"
    /\ label' = [increment |-> "+1", decrement |-> "-1"]
    /\ listeners' = [increment |-> "v3_increment", decrement |-> "v3_decrement"]
    /\ UNCHANGED <<closure_state, handler, panicked, chan_vars, reducer, count,
                   hist_vars>>

v3_frame == <<pc, dom_vars, closure_state, chan_vars, reducer, count, failed,
              sent, delivered, renders>>

\* A click starts the listener of button b; listeners run one at a time, to
\* completion, and a panic ends the program.
ClickV3(b) ==
    /\ pc = "returned"
    /\ listeners[b] \in {"v3_increment", "v3_decrement"}
    /\ handler.at = "idle"
    /\ ~panicked
    /\ Len(clicks) < MaxClicks
    /\ clicks' = Append(clicks, b)
    /\ handler' = [button |-> b, at |-> "borrow_mut"]
    /\ UNCHANGED <<pc, dom_vars, state, closure_state, borrow_flag, panicked,
                   chan_vars, reducer, count, failed, sent, delivered, renders>>

ClickIncrementV3 == ClickV3("increment")

ClickDecrementV3 == ClickV3("decrement")

\* state.borrow_mut(): panics unless the cell is unborrowed.
BorrowMutV3 ==
    /\ handler.at = "borrow_mut"
    /\ IF borrow_flag = 0
       THEN /\ borrow_flag' = -1
            /\ handler' = [handler EXCEPT !.at = "write"]
            /\ UNCHANGED panicked
       ELSE /\ panicked' = TRUE
            /\ handler' = [handler EXCEPT !.at = "idle"]
            /\ UNCHANGED borrow_flag
    /\ UNCHANGED <<state, clicks, v3_frame>>

\* .count += 1 or .count -= 1, through the RefMut.
WriteV3 ==
    /\ handler.at = "write"
    /\ state' = state + handler_step(listeners[handler.button])
    /\ handler' = [handler EXCEPT !.at = "release_mut"]
    /\ UNCHANGED <<borrow_flag, panicked, clicks, v3_frame>>

\* Mutant: the RefMut is bound to a variable and outlives the statement.
ReleaseMutV3_kept ==
    /\ handler.at = "release_mut"
    /\ handler' = [handler EXCEPT !.at = "borrow"]
    /\ UNCHANGED <<state, borrow_flag, panicked, clicks, v3_frame>>

\* The temporary RefMut is dropped at the end of its statement.
ReleaseMutV3 ==
    /\ handler.at = "release_mut"
    /\ borrow_flag' = 0
    /\ handler' = [handler EXCEPT !.at = "borrow"]
    /\ UNCHANGED <<state, panicked, clicks, v3_frame>>

\* state.borrow(): panics if the cell is mutably borrowed.
BorrowV3 ==
    /\ handler.at = "borrow"
    /\ IF borrow_flag >= 0
       THEN /\ borrow_flag' = borrow_flag + 1
            /\ handler' = [handler EXCEPT !.at = "render"]
            /\ UNCHANGED panicked
       ELSE /\ panicked' = TRUE
            /\ handler' = [handler EXCEPT !.at = "idle"]
            /\ UNCHANGED borrow_flag
    /\ UNCHANGED <<state, clicks, v3_frame>>

\* p.set_text_content(Some(&...count.to_string())), through the Ref.
RenderV3 ==
    /\ handler.at = "render"
    /\ p' = to_string(state)
    /\ handler' = [handler EXCEPT !.at = "release"]
    /\ UNCHANGED <<pc, label, listeners, state, closure_state, borrow_flag,
                   panicked, chan_vars, reducer, count, hist_vars>>

\* The temporary Ref is dropped at the end of its statement; the listener
\* returns.
ReleaseV3 ==
    /\ handler.at = "release"
    /\ borrow_flag' = borrow_flag - 1
    /\ handler' = [handler EXCEPT !.at = "idle"]
    /\ UNCHANGED <<state, panicked, clicks, v3_frame>>

NextV3 ==
    \/ version_3_with_interior_mutability
    \/ ClickIncrementV3
    \/ ClickDecrementV3
    \/ BorrowMutV3
    \/ WriteV3
    \/ ReleaseMutV3
    \/ BorrowV3
    \/ RenderV3
    \/ ReleaseV3

SpecV3 == Init /\ [][NextV3]_vars

----------------------------------------------------------------------------
(* Version 4: the claims.                                                  *)

\* C1: once the reducer has drained every accepted message, its count
\* (initially 0) is the number of Increment messages delivered minus the
\* number of Decrement messages delivered.
C1_DrainedCountIsIncMinusDec ==
    (pc = "returned" /\ message_queue = <<>>) =>
        /\ delivered = sent
        /\ count = Occurrences(delivered, "Increment")
                   - Occurrences(delivered, "Decrement")

C1_Witness ==
    /\ message_queue = <<>>
    /\ Len(delivered) >= 4
    /\ Occurrences(delivered, "Increment") >= 1
    /\ Occurrences(delivered, "Decrement") >= 2
    /\ count = Occurrences(delivered, "Increment")
               - Occurrences(delivered, "Decrement")

\* C2 as stated: the channel never holds more than 4 undelivered messages,
\* and 5 try_send calls before any dequeue include a failed one.
C2_AsStated ==
    /\ num_messages <= 4
    /\ (delivered = <<>> /\ Len(clicks) >= 5) => failed >= 1

\* C2, amended: the channel never holds more than 6 undelivered messages
\* (the buffer of 4 plus one guaranteed slot for each of the two senders),
\* and 7 try_send calls before any dequeue include a failed one.
C2_CapacityIsBufferPlusSenders ==
    /\ num_messages <= buffer + Cardinality(Senders)
    /\ (delivered = <<>> /\ Len(clicks) >= buffer + Cardinality(Senders) + 1)
           => failed >= 1

C2_Witness ==
    /\ delivered = <<>>
    /\ Len(clicks) = 7
    /\ num_messages = 6
    /\ failed = 1

\* C3: a click whose try_send fails as full is dropped silently: the step
\* completes (the entry point and the reducer task are where they were, no
\* sender becomes parked) and the buffered messages, the reducer's count and
\* the displayed text are exactly what they were before the click.
C3_FailedSendChangesNothing ==
    [][failed' # failed =>
          /\ failed' = failed + 1
          /\ Len(clicks') = Len(clicks) + 1
          /\ UNCHANGED <<message_queue, count, p, sent, delivered, renders>>
          /\ UNCHANGED <<pc, reducer, channel, parked_queue, is_parked>>]_vars

C3_Witness ==
    /\ failed >= 2
    /\ num_messages >= 5
    /\ Len(delivered) >= 1

\* C4: the reducer dequeues the accepted messages in the order the click
\* handlers enqueued them, across both senders: the accepted sends are, in
\* order, the messages delivered so far and then the messages buffered.
C4_DeliveryIsFifo ==
    sent = delivered \o message_queue

C4_Witness ==
    /\ Len(delivered) >= 3
    /\ delivered[1] = "Increment"
    /\ delivered[2] = "Decrement"
    /\ delivered[3] = "Increment"
    /\ message_queue # <<>>

\* C5: the reducer renders exactly once after each message it consumes:
\* the i-th text written to the display is "count is s_i", s_i the sum of
\* the first i delivered messages; [+1, -1, +1] renders "count is 1",
\* "count is 0", "count is 1".
C5_RenderAfterEachMessage ==
    /\ Len(renders) = Len(delivered)
    /\ \A i \in 1..Len(renders) :
          renders[i] = CountText(Sum(SubSeq(delivered, 1, i)))
    /\ delivered = <<"Increment", "Decrement", "Increment">> =>
          renders = <<"count is 1", "count is 0", "count is 1">>

C5_Witness ==
    /\ delivered = <<"Increment", "Decrement", "Increment">>
    /\ renders = <<"count is 1", "count is 0", "count is 1">>
    /\ p = "count is 1"

C7_NoMessageNoRender ==
    (pc = "returned" /\ sent = <<>>) =>
        /\ count = 0
        /\ renders = <<>>
        /\ p = "Hello, Ryan!"

C7_Witness ==
    /\ pc = "returned"
    /\ sent = <<>>
    /\ reducer = "pending"
    /\ p = "Hello, Ryan!"

\* C8: the count and the display have a single writer: a click step, its
\* send accepted or failed, leaves both unchanged, and once version 4 is
\* set up the only step that changes either is the reducer task consuming
\* one message.
C8_ReducerIsTheOnlyWriter ==
    [][/\ clicks' # clicks => (count' = count /\ p' = p)
       /\ (pc = "returned" /\ (count' # count \/ p' # p)) =>
             /\ reducer = "running"
             /\ message_queue # <<>>
             /\ delivered' = Append(delivered, Head(message_queue))
             /\ message_queue' = Tail(message_queue)
             /\ clicks' = clicks]_vars

C8_Witness ==
    /\ failed >= 1
    /\ Len(sent) >= 6
    /\ Len(delivered) >= 2
    /\ p # "Hello, Ryan!"

\* C10: under fair scheduling of the reducer task, every message a send
\* accepted is eventually dequeued and followed by a render: for each i,
\* once i messages are accepted, eventually i are delivered and rendered.
C10_AcceptedIsEventuallyRendered ==
    \A i \in 1..MaxClicks :
        (Len(sent) >= i) ~> (Len(delivered) >= i /\ Len(renders) >= i)

C10_Witness ==
    /\ Len(sent) >= 6
    /\ delivered = sent
    /\ Len(renders) = Len(sent)
    /\ reducer = "pending"

\* C11: the reducer loop exits only when no sender is left and no message
\* is buffered; both senders stay owned by the registered click listeners,
\* so once version 4 is set up the loop never exits.
C11_LoopNeverExitsWhileSendersLive ==
    /\ [](pc = "returned" =>
            /\ num_senders = Cardinality(Senders)
            /\ reducer \in {"woken", "running", "pending"})
    /\ [][reducer' = "exited" =>
            (num_senders = 0 /\ message_queue = <<>> /\ delivered = sent)]_vars

C11_Witness ==
    /\ reducer = "pending"
    /\ num_senders = 2
    /\ message_queue = <<>>
    /\ delivered = sent
    /\ Len(sent) >= 2

\* C12: the reducer consuming an Increment immediately followed by a
\* Decrement returns the count to what it was, and the render after the
\* Decrement shows the text shown before the Increment ("count is 0" when
\* the pair comes first).
C12_IncrementThenDecrementRoundTrips ==
    /\ \A n \in (0 - MaxClicks)..MaxClicks :
          update(update(n, "Increment"), "Decrement") = n
    /\ \A i \in 2..Len(delivered) :
          (delivered[i - 1] = "Increment" /\ delivered[i] = "Decrement") =>
              /\ renders[i] = IF i = 2 THEN "count is 0" ELSE renders[i - 2]
              /\ i = Len(delivered) =>
                    (p = renders[i] /\ renders[i] = CountText(count))

C12_Witness ==
    /\ Len(delivered) >= 4
    /\ delivered[Len(delivered) - 1] = "Increment"
    /\ delivered[Len(delivered)] = "Decrement"
    /\ count = 2
    /\ p = "count is 2"

\* C13: each click makes exactly one send attempt and each message is
\* consumed at most once: the clicks are the accepted sends plus the failed
\* ones, and the accepted sends are the messages consumed plus the messages
\* buffered.
C13_ClicksAreConsumedBufferedOrFailed ==
    pc = "returned" =>
        /\ Len(clicks) = Len(delivered) + num_messages + failed
        /\ Len(clicks) = Len(sent) + failed
        /\ Len(sent) = Len(delivered) + num_messages

C13_Witness ==
    /\ failed >= 1
    /\ Len(delivered) >= 3
    /\ num_messages >= 3
    /\ Len(clicks) = Len(delivered) + num_messages + failed

\* C17: a full channel is not permanent: with the queue drained no sender is
\* parked, so after a failed send the next click on either button is
\* accepted, and under fair scheduling of the reducer task it is consumed
\* and rendered.
C17_FullIsNotPermanent ==
    /\ [](message_queue = <<>> => \A s \in Senders : poll_unparked(s))
    /\ [][(failed > 0 /\ message_queue = <<>> /\ clicks' # clicks) =>
            /\ failed' = failed
            /\ Len(sent') = Len(sent) + 1
            /\ message_queue' = <<sent'[Len(sent')]>>]_vars
    /\ \A i \in 1..MaxClicks :
          (failed > 0 /\ Len(sent) >= i)
              ~> (Len(delivered) >= i /\ Len(renders) >= i)

\* The reducer had drained the queue and suspended after a failed send, and
\* the click that woke it was accepted.
C17_Witness ==
    /\ failed >= 1
    /\ Len(delivered) >= 6
    /\ reducer = "woken"
    /\ num_messages = 1
    /\ Len(sent) = Len(delivered) + 1

----------------------------------------------------------------------------
(* main(): the claims.                                                     *)

\* C9 as stated: after main returns the channel exists, the reducer task
\* runs and both buttons have listeners sending Increment and Decrement.
C9_AsStated ==
    pc = "returned" =>
        /\ channel = "open"
        /\ reducer # "none"
        /\ listeners = [increment |-> "v4_increment",
                        decrement |-> "v4_decrement"]

\* C9, amended: main runs version 1.  After main returns there is no
\* channel and no reducer task; only the "+1" button has a listener, which
\* increments the count and writes it to the display itself, so the display
\* shows the number of "+1" clicks and a "-1" click changes nothing.
C9_MainRunsVersion1 ==
    pc = "returned" =>
        /\ channel = "none"
        /\ reducer = "none"
        /\ message_queue = <<>>
        /\ label = [increment |-> "+1", decrement |-> "-1"]
        /\ listeners = [increment |-> "v1_increment", decrement |-> "none"]
        /\ state = ClicksOn("+1")
        /\ p = IF ClicksOn("+1") = 0
               THEN "Click the button to update this"
               ELSE DecimalText(ClicksOn("+1"))

C9_Witness ==
    /\ pc = "returned"
    /\ ClicksOn("+1") = 2
    /\ ClicksOn("-1") >= 1
    /\ clicks[Len(clicks)] = "decrement"
    /\ p = "2"

\* C18: in version 1, the version main runs, only the "+1" button has a
\* listener: the display shows the number of "+1" clicks made so far (the
\* initial text when there were none), and a click on "-1" leaves the count
\* and the display unchanged.
C18_OnlyPlusOneIsWired ==
    /\ [](pc = "returned" =>
            /\ listeners["decrement"] = "none"
            /\ state = ClicksOn("+1")
            /\ p = IF ClicksOn("+1") = 0
                   THEN "Click the button to update this"
                   ELSE DecimalText(ClicksOn("+1")))
    /\ [][(clicks' # clicks /\ label[clicks'[Len(clicks')]] = "-1") =>
            UNCHANGED <<state, p>>]_vars

C18_Witness ==
    /\ ClicksOn("+1") = 3
    /\ ClicksOn("-1") = 2
    /\ clicks[Len(clicks)] = "decrement"
    /\ state = 3
    /\ p = "3"

----------------------------------------------------------------------------
(* Version 2: the claims.                                                  *)

\* C14: each listener of version 2 owns its own copy of the count: after
\* any click sequence a "+1" click displays the number of "+1" clicks so
\* far and a "-1" click displays minus the number of "-1" clicks so far,
\* whatever was clicked on the other button.
C14_CopiesDriftIndependently ==
    (pc = "returned" /\ clicks # <<>>) =>
        /\ closure_state["increment"] = ClicksOn("+1")
        /\ closure_state["decrement"] = 0 - ClicksOn("-1")
        /\ p = IF label[clicks[Len(clicks)]] = "+1"
               THEN DecimalText(ClicksOn("+1"))
               ELSE DecimalText(0 - ClicksOn("-1"))

\* The display differs from (+1 clicks) - (-1 clicks).
C14_Witness ==
    /\ ClicksOn("+1") = 2
    /\ ClicksOn("-1") = 1
    /\ clicks[Len(clicks)] = "decrement"
    /\ p = "-1"
    /\ p # DecimalText(ClicksOn("+1") - ClicksOn("-1"))

----------------------------------------------------------------------------
(* Version 3: the claims.                                                  *)

\* C15: both listeners of version 3 work on the same State: after every
\* click, once its listener has returned, the displayed number is the
\* number of "+1" clicks minus the number of "-1" clicks.
C15_SharedStateCountsBoth ==
    (pc = "returned" /\ clicks # <<>> /\ handler.at = "idle") =>
        /\ state = ClicksOn("+1") - ClicksOn("-1")
        /\ p = DecimalText(ClicksOn("+1") - ClicksOn("-1"))

C15_Witness ==
    /\ handler.at = "idle"
    /\ ClicksOn("+1") = 3
    /\ ClicksOn("-1") = 2
    /\ clicks[1] = "decrement"
    /\ p = "1"

\* C16: no borrow of the shared RefCell is requested while another is
\* outstanding: the cell is unborrowed at every borrow_mut() and borrow()
\* and between listeners, and no borrow ever panics.
C16_NoBorrowWhileBorrowed ==
    /\ ~panicked
    /\ handler.at \in {"idle", "borrow_mut", "borrow"} => borrow_flag = 0
    /\ handler.at \in {"write", "release_mut"} => borrow_flag = -1
    /\ handler.at \in {"render", "release"} => borrow_flag = 1

C16_Witness ==
    /\ handler = [button |-> "decrement", at |-> "borrow"]
    /\ borrow_flag = 0
    /\ Len(clicks) >= 3
    /\ clicks[1] = "increment"
    /\ ~panicked

====
